---- MODULE Spec2Model ----
(***************************************************************************)
(* The client-side reconciliation logic of ChatApp (src/src/ui/ChatApp.jsx):*)
(* the chat list, the message thread of the active chat, the unread        *)
(* counters and the optimistic send, driven by REST responses, push events *)
(* and user actions.  Every handler is one action; React state updates and *)
(* the effects of the render they cause are part of the action that made   *)
(* them.                                                                   *)
(***************************************************************************)
EXTENDS Integers, Sequences, FiniteSets, TLC

(***************************************************************************)
(* The record of a step, kept in the history variable `last`.              *)
(***************************************************************************)
\* what a step was: the operation, its input a, and two facts b and c about
\* the state it found
Step(op, a, b, c) == [op |-> op, a |-> a, b |-> b, c |-> c]

(***************************************************************************)
(* JavaScript values used as identifiers.  A value is a pair <<type, code>>:*)
(* "u" is undefined, "s" a string, "n" a number, "t" the string             *)
(* `temp-${code}`.  The string with code 0 is the text "undefined".         *)
(***************************************************************************)
Undef == <<"u", 0>>
StrV(k) == <<"s", k>>
NumV(k) == <<"n", k>>
TempV(t) == <<"t", t>>

\* truthiness of an identifier value (the pools hold no 0 and no "")
Truthy(v) == v # Undef

\* a || b
OrElse(a, b) == IF Truthy(a) THEN a ELSE b

\* String(v)
String(v) ==
  IF v = Undef THEN StrV(0)
  ELSE IF v[1] = "n" THEN StrV(v[2])
  ELSE v

\* e.id || e._id
RawId(e) == OrElse(e.id, e._id)

\* String(e.id || e._id)
CanonId(e) == String(RawId(e))

(***************************************************************************)
(* Bounds of the model.                                                    *)
(***************************************************************************)
MaxThread == 2
MaxUnread == 2
MaxSends == 2
MaxClock == 1
MaxChatResp == 2
MaxMsgResp == 1
MaxFetch == 1
MaxWaiting == 1

\* send(): const maxWait = 5000; const checkInterval = 200
maxWait == 5000
checkInterval == 200

(***************************************************************************)
(* The session: user.id of the logged-in user, and one other user.         *)
(***************************************************************************)
Me == StrV(1)
Other == StrV(2)
Users == {Me, Other}

Statuses == {"sent", "delivered", "seen"}
\* a status map: recipientId -> status, "none" where the map has no key
NoStatus == [u \in Users |-> "none"]

(***************************************************************************)
(* Text.  A string is a sequence of characters; " " is white space.        *)
(***************************************************************************)
RECURSIVE TrimStart(_)
TrimStart(s) ==
  IF s # <<>> /\ Head(s) = " " THEN TrimStart(Tail(s)) ELSE s

RECURSIVE TrimEnd(_)
TrimEnd(s) ==
  IF s # <<>> /\ s[Len(s)] = " " THEN TrimEnd(SubSeq(s, 1, Len(s) - 1)) ELSE s

\* input.trim()
Trim(s) == TrimEnd(TrimStart(s))

\* what the user can have typed
Inputs == {<<>>, <<" ">>, <<"a">>, <<" ", "a">>}

(***************************************************************************)
(* Messages and chats as the server sends them.                            *)
(***************************************************************************)
NoChat == [nil |-> TRUE]
NoMsg == [nil |-> TRUE]

Msg(i, x, c, s, inf) ==
  [id |-> i, _id |-> x, chat |-> c, sender |-> s, content |-> <<"a">>,
   status |-> NoStatus, optimistic |-> FALSE, chatInfo |-> inf]

\* a chat: `typing` is "absent" until a typing event sets it, `members` is
\* empty when the chat carries none
Chat(i, x) ==
  [id |-> i, _id |-> x, lastMessage |-> NoMsg, typing |-> "absent", members |-> <<>>]

\* a member of a chat, offline
Member(i, x) == [id |-> i, _id |-> x, isOnline |-> FALSE, lastSeen |-> 0]

\* a chat with members
ChatOf(i, x, ms) == [Chat(i, x) EXCEPT !.members = ms]

\* the chats the server knows: chat "1" in both id shapes, and chat "2"
ChatPool == {Chat(StrV(1), Undef), Chat(Undef, StrV(1)), Chat(StrV(2), Undef)}

\* the chat ids a message can carry
ChatIds == {StrV(1), StrV(2)}

\* the canonical keys an unread counter can have
ChatKeys == {String(c) : c \in ChatIds}

\* those keys and the key of a chat that has neither id: String(undefined)
AllKeys == ChatKeys \cup {String(Undef)}

\* the chat with the canonical id of c, as embedded chatInfo
InfoFor(c) == Chat(c, Undef)

\* the messages the server can push or return
MsgPool ==
  {Msg(StrV(1), Undef, c, s, NoChat) : c \in ChatIds, s \in Users}
    \cup {Msg(Undef, StrV(1), StrV(1), Other, NoChat)}
    \cup {Msg(StrV(2), Undef, c, Me, NoChat) : c \in ChatIds}
    \cup {Msg(StrV(3), Undef, c, Other, InfoFor(c)) : c \in ChatIds}

(***************************************************************************)
(* Sequences.                                                              *)
(***************************************************************************)
\* list.some(p)
Some(list, P(_)) == \E i \in 1..Len(list) : P(list[i])

\* list.map(f)
Map(list, F(_)) == [i \in 1..Len(list) |-> F(list[i])]

\* list.filter(p)
Filter(list, P(_)) == SelectSeq(list, P)

\* the sequences over S of length at most n
SeqsUpTo(S, n) == UNION {[1..k -> S] : k \in 0..n}

\* how many entries of list have the canonical id key
CountId(list, key) == Cardinality({i \in 1..Len(list) : CanonId(list[i]) = key})

(***************************************************************************)
(* REST responses: an array, a bare object (items holds it), an empty      *)
(* (falsy) body, or a failed call.                                         *)
(***************************************************************************)
Response(k, xs) == [kind |-> k, items |-> xs]

\* uniqueChats with the last chat of each id kept instead of the first
RECURSIVE uniqueChatsKeepLast(_, _)
uniqueChatsKeepLast(data, seenIds) ==
  IF data = <<>> THEN <<>>
  ELSE IF \E i \in 2..Len(data) : CanonId(data[i]) = CanonId(Head(data))
    THEN uniqueChatsKeepLast(Tail(data), seenIds)
    ELSE <<Head(data)>> \o uniqueChatsKeepLast(Tail(data), seenIds)

\* loadChats: the deduplication of an array, lines 66-75
RECURSIVE uniqueChats(_, _)
uniqueChats(data, seenIds) ==
  IF data = <<>> THEN <<>>
  ELSE LET chat == Head(data)
           chatId == CanonId(chat)
       IN IF chatId \notin seenIds
            THEN <<chat>> \o uniqueChats(Tail(data), seenIds \cup {chatId})
            ELSE uniqueChats(Tail(data), seenIds)

\* loadChats: the chat list after the response, lines 65-83
LoadChatsList(data) ==
  IF data.kind = "array" THEN uniqueChats(data.items, {})
  ELSE IF data.kind = "object" THEN <<data.items[1]>>
  ELSE <<>>

\* loadChats: the chat it makes active, NoChat when it sets none
\* (`active` is the value the effect's closure captured)
LoadChatsActive(data, closureActive) ==
  IF closureActive # NoChat THEN NoChat
  ELSE IF data.kind = "array"
    THEN (IF Len(uniqueChats(data.items, {})) > 0
            THEN uniqueChats(data.items, {})[1] ELSE NoChat)
  ELSE IF data.kind = "object" THEN data.items[1]
  ELSE NoChat

\* loadMessages: the thread after the response, lines 111-113
LoadMessagesList(data) ==
  IF data.kind = "array" THEN data.items
  ELSE IF data.kind = "object" THEN <<data.items[1]>>
  ELSE <<>>

(***************************************************************************)
(* handleNewMessage.                                                       *)
(***************************************************************************)
\* IsActiveChat without the comparison of the chat ids
IsActiveChatAnyId(chatId, currentActive) == currentActive # NoChat

\* lines 231-234
IsActiveChat(chatId, currentActive) ==
  /\ currentActive # NoChat
  /\ String(chatId) = CanonId(currentActive)

\* the setMessages updater, lines 238-249
AppendIncoming(list, message) ==
  LET exists == Some(list, LAMBDA m : CanonId(m) = CanonId(message))
  IN IF exists THEN list ELSE Append(list, message)

\* line 252 (and 321, 545): the sender is not the current user
FromOther(message) == String(message.sender) # String(Me)

\* the setChats updater: lines 268-271
ChatExists(list, chatIdStr) == Some(list, LAMBDA c : CanonId(c) = chatIdStr)

\* SetLastMessage with the chat moved to the front of the list
SetLastMessageToFront(list, chatIdStr, message) ==
  Map(Filter(list, LAMBDA c : CanonId(c) = chatIdStr),
      LAMBDA c : [c EXCEPT !.lastMessage = message])
    \o Filter(list, LAMBDA c : CanonId(c) # chatIdStr)

\* lines 275-281
SetLastMessage(list, chatIdStr, message) ==
  Map(list, LAMBDA c :
    IF CanonId(c) = chatIdStr THEN [c EXCEPT !.lastMessage = message] ELSE c)

\* InsertChatInfo with the chat put at the end of the list
InsertChatInfoAtEnd(list, message) ==
  LET chat == [message.chatInfo EXCEPT !.lastMessage = message]
      alreadyExists == Some(list, LAMBDA c : CanonId(c) = CanonId(chat))
  IN IF ~alreadyExists THEN Append(list, chat) ELSE list

\* lines 285-295
InsertChatInfo(list, message) ==
  LET chat == [message.chatInfo EXCEPT !.lastMessage = message]
      alreadyExists == Some(list, LAMBDA c : CanonId(c) = CanonId(chat))
  IN IF ~alreadyExists THEN <<chat>> \o list ELSE list

\* lines 265-318: the list the updater returns
UpsertFromIncomingMessage(list, message) ==
  IF ChatExists(list, String(message.chat))
    THEN SetLastMessage(list, String(message.chat), message)
  ELSE IF message.chatInfo # NoChat THEN InsertChatInfo(list, message)
  ELSE list

\* lines 296-316: the updater starts the asynchronous fetch of the chat
StartsChatFetch(list, message) ==
  /\ ~ChatExists(list, String(message.chat))
  /\ message.chatInfo = NoChat

\* InsertFetchedChat without the check of lines 303-307
InsertFetchedChatNoCheck(currentList, chat) == <<chat>> \o currentList

\* the setChats updater of the fetch's continuation, lines 300-311
InsertFetchedChat(currentList, chat) ==
  LET exists2 == Some(currentList, LAMBDA c : CanonId(c) = CanonId(chat))
  IN IF ~exists2 THEN <<chat>> \o currentList ELSE currentList

\* IncrementUnread with every counter incremented
IncrementUnreadOfAll(prev, id) == [k \in DOMAIN prev |-> prev[k] + 1]

\* the setUnreadCounts updater, lines 322-327
IncrementUnread(prev, id) == [prev EXCEPT ![id] = prev[id] + 1]

(***************************************************************************)
(* The other push events.                                                  *)
(***************************************************************************)
\* ChatCreatedList without the test for an existing entry
ChatCreatedListAlwaysInsert(list, chat) == <<chat>> \o list

\* chat:created, lines 344-361
ChatCreatedList(list, chat) ==
  LET chatIdStr == CanonId(chat)
      exists == Some(list, LAMBDA c : CanonId(c) = chatIdStr)
  IN IF exists
       THEN Map(list, LAMBDA c : IF CanonId(c) = chatIdStr THEN chat ELSE c)
       ELSE <<chat>> \o list

\* PatchStatus without the comparison of the ids
PatchStatusOfAny(m, messageId, userId, status) ==
  [m EXCEPT !.status = [m.status EXCEPT ![userId] = status]]

\* PatchStatus for the current user's own messages only
PatchStatusOfOwn(m, messageId, userId, status) ==
  IF CanonId(m) # String(messageId) \/ m.sender # Me THEN m
  ELSE [m EXCEPT !.status = [m.status EXCEPT ![userId] = status]]

\* message:status on one message, lines 369-373 and 382-385
PatchStatus(m, messageId, userId, status) ==
  IF CanonId(m) # String(messageId) THEN m
  ELSE [m EXCEPT !.status = [m.status EXCEPT ![userId] = status]]

\* message:status, the setMessages updater, lines 366-375
StatusMessages(list, messageId, userId, status) ==
  Map(list, LAMBDA m : PatchStatus(m, messageId, userId, status))

\* message:status, the setChats updater, lines 377-387
StatusChats(list, messageId, userId, status) ==
  Map(list, LAMBDA c :
    IF c.lastMessage = NoMsg THEN c
    ELSE [c EXCEPT !.lastMessage = PatchStatus(c.lastMessage, messageId, userId, status)])

(***************************************************************************)
(* typing and user:presence.                                               *)
(***************************************************************************)
\* handleTypingEvent, the setChats updater, lines 332-337
TypingList(list, data) ==
  Map(list, LAMBDA c :
    IF RawId(c) = data.chatId THEN [c EXCEPT !.typing = data.typing] ELSE c)

\* user:presence, line 394: the chat has a member with the id in a field
HasMember(c, userId) ==
  Some(c.members, LAMBDA m : m.id = userId \/ m._id = userId)

\* PresenceMembers with the id field compared and _id left out
PresenceMembersByIdOnly(members, data) ==
  Map(members, LAMBDA m :
    IF m.id = data.userId
      THEN [m EXCEPT !.isOnline = data.isOnline, !.lastSeen = data.lastSeen]
      ELSE m)

\* user:presence, lines 397-401
PresenceMembers(members, data) ==
  Map(members, LAMBDA m :
    IF RawId(m) = data.userId
      THEN [m EXCEPT !.isOnline = data.isOnline, !.lastSeen = data.lastSeen]
      ELSE m)

\* user:presence, the setChats updater, lines 391-405
PresenceList(list, data) ==
  Map(list, LAMBDA c :
    IF HasMember(c, data.userId)
      THEN [c EXCEPT !.members = PresenceMembers(c.members, data)]
      ELSE c)

(***************************************************************************)
(* send and its acknowledgement.                                           *)
(***************************************************************************)
\* CanSend with the text not trimmed
CanSendUntrimmed(currentActive, text) == currentActive # NoChat /\ text # <<>>

\* lines 430-433: send goes on
CanSend(currentActive, text) == currentActive # NoChat /\ Trim(text) # <<>>

\* KeepsWaiting with <= for <
KeepsWaitingOneMore(waited) == waited <= maxWait

\* line 453: the loop goes round while the channel is down
KeepsWaiting(waited) == waited < maxWait

\* lines 472-484
OptimisticMsg(tempId, chatId, messageContent) ==
  [id |-> tempId, _id |-> Undef, chat |-> chatId, sender |-> Me,
   content |-> messageContent, status |-> [NoStatus EXCEPT ![Me] = "sent"],
   optimistic |-> TRUE, chatInfo |-> NoChat]

\* the ack's branches, lines 497 and 510
AckIsSuccess(ack) == ack.ok /\ ack.message # NoMsg
AckIsFailure(ack) == ~AckIsSuccess(ack) /\ ack.error

\* lines 499-509
AckSuccessList(list, tempId, ackMessage) ==
  LET realId == RawId(ackMessage)
      already == Some(list, LAMBDA m : CanonId(m) = String(realId))
  IN IF already
       THEN Filter(list, LAMBDA m : m.id # tempId)
       ELSE Map(list, LAMBDA m : IF m.id = tempId THEN ackMessage ELSE m)

\* AckFailureList with the entry left in place
AckFailureListKeep(list, tempId) == list

\* lines 512-515
AckFailureList(list, tempId) == Filter(list, LAMBDA m : m.id # tempId)

(***************************************************************************)
(* Activation: the effects that depend on `active`.                        *)
(***************************************************************************)
\* the setUnreadCounts updater, lines 537-542 (a deleted key reads as 0)
ClearUnread(prev, cid) == [prev EXCEPT ![cid] = 0]

\* SeenIds with the user's own messages left in
SeenIdsOfAll(list) == Filter(Map(list, RawId), Truthy)

\* lines 544-547
SeenIds(list) ==
  Filter(Map(Filter(list, FromOther), RawId), Truthy)

(***************************************************************************)
(* The connection: Inner (lines 1083-1184) owns the socket, ChatApp's      *)
(* effect on [socket] (lines 147-426) registers the handlers on it.        *)
(***************************************************************************)
MaxSockets == 3
MaxConnectCalls == 2

NoToken == "none"
FirstToken == "t1"
Tokens == {FirstToken, "t2"}
NoSocket == 0

\* the events ChatApp listens to
LifecycleEvents ==
  {"connect", "disconnect", "connect_error", "reconnect", "reconnect_attempt",
   "reconnect_failed"}
PushEvents == {"message:new", "chat:created", "message:status", "typing", "user:presence"}
Events == PushEvents \cup LifecycleEvents

\* io(WS_URL, {auth: {token}, autoConnect: true, ...}), lines 1105-1118:
\* `handlers` counts the ChatApp handlers registered for each event
Socket(t) ==
  [token |-> t, open |-> TRUE, connectCalls |-> 0, handlers |-> [e \in Events |-> 0]]

\* socketRef.current.disconnect(), lines 1090-1093 and 1163-1166
Closed(socks, ref) ==
  IF ref = NoSocket THEN socks ELSE [socks EXCEPT ![ref].open = FALSE]

\* the useMemo that forgets to disconnect when the token is removed
UseMemoKeepsOpen(t, ref, socks) ==
  IF t = NoToken THEN [ref |-> NoSocket, sockets |-> socks]
  ELSE IF ref # NoSocket THEN [ref |-> ref, sockets |-> socks]
  ELSE [ref |-> Len(socks) + 1, sockets |-> Append(socks, Socket(t))]

\* the useMemo on [token], lines 1087-1158: the new socketRef.current (which
\* is the value it returns) and the sockets
UseMemo(t, ref, socks) ==
  IF t = NoToken THEN [ref |-> NoSocket, sockets |-> Closed(socks, ref)]
  ELSE IF ref # NoSocket THEN [ref |-> ref, sockets |-> socks]
  ELSE [ref |-> Len(socks) + 1, sockets |-> Append(socks, Socket(t))]

\* socket.on(...) for every event, lines 215-220, 340, 341, 364, 389, 390;
\* the socket.off calls of lines 207-212 name handlers created in this run
\* of the effect, which no socket holds
On(h) == [e \in Events |-> h[e] + 1]

\* the cleanup that removes the lifecycle handlers only
OffLifecycleOnly(h) ==
  [e \in Events |-> IF e \in LifecycleEvents /\ h[e] > 0 THEN h[e] - 1 ELSE h[e]]

\* the cleanup, lines 408-424: socket.off(ev, handler) removes that handler,
\* socket.off(ev) removes every handler of ev
Off(h) ==
  [e \in Events |->
     IF e \in {"message:status", "chat:created", "user:presence"} THEN 0
     ELSE IF h[e] > 0 THEN h[e] - 1 ELSE 0]

\* ChatApp's effect on [socket] when the socket it ran with goes from old
\* to new (NoSocket: no socket, or ChatApp not mounted): the cleanup of the
\* last run, then the new run
SocketEffect(socks, old, new) ==
  LET cleaned == IF old # NoSocket THEN [socks EXCEPT ![old].handlers = Off(@)]
                 ELSE socks
  IN IF new # NoSocket THEN [cleaned EXCEPT ![new].handlers = On(@)] ELSE cleaned

\* the disconnect listener that reconnects whatever the reason
ReconnectsByHandAlways(reason) == TRUE

\* the disconnect listener of Inner, line 1134
ReconnectsByHand(reason) == reason = "io server disconnect"

\* the reasons a disconnect that the client did not ask for can have
Reasons == {"io server disconnect", "ping timeout", "transport close"}

(***************************************************************************)
(* The state.                                                              *)
(***************************************************************************)
VARIABLES
  chats,            \* useState([]): the chat list
  active,           \* useState(null): the active chat, NoChat for null
  messages,         \* useState([]): the thread of the active chat
  input,            \* useState(""): the text typed
  unreadCounts,     \* useState({}): canonical chat id -> count
  loading,          \* useState(true)
  connected,        \* socket.connected
  now,              \* Date.now()
  loadChatsPending, \* GET /api/chats is in flight
  loadChatsClosure, \* the `active` the loadChats closure captured
  msgFetches,       \* chat id -> how many GET .../messages are in flight
  chatFetches,      \* chat id -> how many GET /api/chats/:id are in flight
  sends,            \* the send() calls in flight
  emitted,          \* what the last step passed to socket.emit, in order
  alerted,          \* the last step called alert()
  last,             \* the last step: [op, a, b, c]
  token,            \* useAuth().token, NoToken when there is none
  isAuthed,         \* useAuth().isAuthed (with useAuth().loading false)
  mounted,          \* Inner is mounted
  socketRef,        \* socketRef.current of Inner, NoSocket for null
  sockets,          \* every socket io() has created, in order of creation
  chatSocket        \* the socket ChatApp's effect on [socket] last ran with

\* the state of Inner and of the sockets
conn == <<token, isAuthed, mounted, socketRef, sockets, chatSocket>>

vars ==
  <<chats, active, messages, input, unreadCounts, loading, connected, now,
    loadChatsPending, loadChatsClosure, msgFetches, chatFetches, sends,
    emitted, alerted, last, conn>>

\* a call socket.emit(ev, payload): payload.id or payload.ids
Emit(ev, id, ids) == [ev |-> ev, id |-> id, ids |-> ids]

Init ==
  /\ chats = <<>>
  /\ active = NoChat
  /\ messages = <<>>
  /\ input = <<>>
  /\ unreadCounts = [k \in AllKeys |-> 0]
  /\ loading = TRUE
  /\ connected = FALSE
  /\ now = 0
  /\ loadChatsPending = TRUE
  /\ loadChatsClosure = NoChat
  /\ msgFetches = [k \in AllKeys |-> 0]
  /\ chatFetches = [c \in ChatIds |-> 0]
  /\ sends = <<>>
  /\ emitted = <<>>
  /\ alerted = FALSE
  /\ last = Step("mount", Undef, Undef, FALSE)
  /\ token = FirstToken
  /\ isAuthed = TRUE
  /\ mounted = TRUE
  /\ socketRef = 1
  /\ sockets = <<[Socket(FirstToken) EXCEPT !.handlers = On(@)]>>
  /\ chatSocket = 1

(***************************************************************************)
(* Effects of a render.                                                    *)
(***************************************************************************)
\* the effect on [socket, chats], lines 122-128: it runs when setChats was
\* given a new array
JoinAll(list, isNew) ==
  IF isNew THEN Map(list, LAMBDA c : Emit("chat:join", RawId(c), <<>>)) ELSE <<>>

\* the effect on [active, token], lines 93-119: joins the room
JoinActive(chat) == <<Emit("chat:join", RawId(chat), <<>>)>>

\* the effect on [active], lines 533-551: the seen batch
SeenBatch(list) ==
  IF Len(SeenIds(list)) > 0
    THEN <<Emit("message:seen", Undef, SeenIds(list))>>
    ELSE <<>>

\* setActive(chat) with a chat object that is not the current one, and the
\* effects of the render it causes: lines 30-32, 93-119 and 533-551.
\* `first` is what the handler itself emits before that render.
Activate(chat, list, isNew, first) ==
  /\ msgFetches[CanonId(chat)] < MaxFetch
  /\ active' = chat
  /\ msgFetches' = [msgFetches EXCEPT ![CanonId(chat)] = @ + 1]
  /\ unreadCounts' = ClearUnread(unreadCounts, CanonId(chat))
  /\ emitted' = first \o JoinActive(chat) \o JoinAll(list, isNew) \o SeenBatch(messages)

(***************************************************************************)
(* REST: the chat list.                                                    *)
(***************************************************************************)
\* loadChats resolves, lines 59-89
LoadChatsDone(data) ==
  /\ loadChatsPending
  /\ loadChatsPending' = FALSE
  /\ loading' = FALSE
  /\ chats' = LoadChatsList(data)
  /\ IF LoadChatsActive(data, loadChatsClosure) # NoChat
       THEN Activate(LoadChatsActive(data, loadChatsClosure), chats', TRUE, <<>>)
       ELSE /\ emitted' = JoinAll(chats', TRUE)
            /\ UNCHANGED <<conn, active, msgFetches, unreadCounts>>
  /\ alerted' = FALSE
  /\ last' = Step("loadChats", data, active, LoadChatsActive(data, loadChatsClosure) # NoChat)
  /\ UNCHANGED <<conn, messages, input, connected, now, loadChatsClosure, chatFetches, sends>>

\* loadChats rejects, lines 84-88
LoadChatsFail ==
  /\ loadChatsPending
  /\ loadChatsPending' = FALSE
  /\ loading' = FALSE
  /\ emitted' = <<>>
  /\ alerted' = FALSE
  /\ last' = Step("loadChats:error", Undef, active, FALSE)
  /\ UNCHANGED <<conn, chats, active, messages, input, unreadCounts, connected, now,
                 loadChatsClosure, msgFetches, chatFetches, sends>>

(***************************************************************************)
(* REST: the messages of a chat.                                           *)
(***************************************************************************)
\* loadMessages resolves, lines 104-113
LoadMessagesDone(cid, data) ==
  /\ msgFetches[cid] > 0
  /\ msgFetches' = [msgFetches EXCEPT ![cid] = @ - 1]
  /\ messages' = LoadMessagesList(data)
  /\ emitted' = <<>>
  /\ alerted' = FALSE
  /\ last' = Step("loadMessages", cid, data, FALSE)
  /\ UNCHANGED <<conn, chats, active, input, unreadCounts, loading, connected, now,
                 loadChatsPending, loadChatsClosure, chatFetches, sends>>

\* loadMessages rejecting with the thread emptied
LoadMessagesFailClears(cid) ==
  /\ msgFetches[cid] > 0
  /\ msgFetches' = [msgFetches EXCEPT ![cid] = @ - 1]
  /\ messages' = <<>>
  /\ emitted' = <<>>
  /\ alerted' = FALSE
  /\ last' = Step("loadMessages:error", cid, Undef, FALSE)
  /\ UNCHANGED <<conn, chats, active, input, unreadCounts, loading, connected,
                 now, loadChatsPending, loadChatsClosure, chatFetches, sends>>

\* loadMessages rejects, lines 114-116
LoadMessagesFail(cid) ==
  /\ msgFetches[cid] > 0
  /\ msgFetches' = [msgFetches EXCEPT ![cid] = @ - 1]
  /\ emitted' = <<>>
  /\ alerted' = FALSE
  /\ last' = Step("loadMessages:error", cid, Undef, FALSE)
  /\ UNCHANGED <<conn, chats, active, messages, input, unreadCounts, loading, connected,
                 now, loadChatsPending, loadChatsClosure, chatFetches, sends>>

(***************************************************************************)
(* The user picks a chat or creates one.                                   *)
(***************************************************************************)
\* onClick={() => setActive(c)}, line 889: c is an entry of the list; React
\* renders nothing when it is the object `active` already holds
SelectChat(i) ==
  /\ i \in 1..Len(chats)
  /\ chats[i] # active
  /\ Activate(chats[i], chats, FALSE, <<>>)
  /\ alerted' = FALSE
  /\ last' = Step("select", chats[i], unreadCounts[CanonId(chats[i])], TRUE)
  /\ UNCHANGED <<conn, chats, messages, input, loading, connected, now,
                 loadChatsPending, loadChatsClosure, chatFetches, sends>>

\* the setChats updater of createOneToOne, lines 566-578
InsertCreatedChat(list, chat) ==
  LET exists == Some(list, LAMBDA c : CanonId(c) = CanonId(chat))
  IN IF exists THEN list ELSE <<chat>> \o list

\* the setChats updater of createGroup, lines 600-612
InsertCreatedGroup(list, chat) ==
  LET exists == Some(list, LAMBDA c : CanonId(c) = CanonId(chat))
  IN IF exists THEN list ELSE <<chat>> \o list

\* POST /api/chats of createOneToOne resolves, lines 566-582
CreateOneToOne(chat) ==
  /\ chats' = InsertCreatedChat(chats, chat)
  /\ Activate(chat, chats', chats' # chats, JoinActive(chat))
  /\ alerted' = FALSE
  /\ last' = Step("createOneToOne", chat, active, TRUE)
  /\ UNCHANGED <<conn, messages, input, loading, connected, now, loadChatsPending,
                 loadChatsClosure, chatFetches, sends>>

\* POST /api/chats of createGroup resolves, lines 600-619
CreateGroup(chat) ==
  /\ chats' = InsertCreatedGroup(chats, chat)
  /\ Activate(chat, chats', chats' # chats, JoinActive(chat))
  /\ alerted' = FALSE
  /\ last' = Step("createGroup", chat, active, TRUE)
  /\ UNCHANGED <<conn, messages, input, loading, connected, now, loadChatsPending,
                 loadChatsClosure, chatFetches, sends>>

(***************************************************************************)
(* Push events.                                                            *)
(***************************************************************************)
\* Acknowledge without the test of the sender
AcknowledgeOwnToo(message) ==
  IF connected
    THEN <<Emit("message:delivered", RawId(message), <<>>),
           Emit("message:seen", Undef, <<RawId(message)>>)>>
    ELSE <<>>

\* lines 252-256
Acknowledge(message) ==
  IF connected /\ FromOther(message)
    THEN <<Emit("message:delivered", RawId(message), <<>>),
           Emit("message:seen", Undef, <<RawId(message)>>)>>
    ELSE <<>>

\* message:new, handleNewMessage, lines 222-329
NewMessage(message) ==
  LET chatId == message.chat
      isActive == IsActiveChat(chatId, active)
      counts == ~isActive /\ FromOther(message)
      fetches == StartsChatFetch(chats, message)
      isNew == ChatExists(chats, String(chatId))
                 \/ UpsertFromIncomingMessage(chats, message) # chats
  IN /\ Truthy(chatId)
     /\ isActive => Len(AppendIncoming(messages, message)) <= MaxThread
     /\ counts => unreadCounts[String(chatId)] < MaxUnread
     /\ fetches => chatFetches[chatId] < MaxFetch
     /\ messages' = IF isActive THEN AppendIncoming(messages, message) ELSE messages
     /\ chats' = UpsertFromIncomingMessage(chats, message)
     /\ chatFetches' = IF fetches THEN [chatFetches EXCEPT ![chatId] = @ + 1]
                       ELSE chatFetches
     /\ unreadCounts' = IF counts THEN IncrementUnread(unreadCounts, String(chatId))
                        ELSE unreadCounts
     /\ emitted' = (IF isActive THEN Acknowledge(message) ELSE <<>>)
                     \o JoinAll(chats', isNew)
     /\ alerted' = FALSE
     /\ last' = Step("message:new", message, isActive, FALSE)
     /\ UNCHANGED <<conn, active, input, loading, connected, now, loadChatsPending,
                    loadChatsClosure, msgFetches, sends>>

\* GET /api/chats/:id resolves, lines 299-311
ChatFetchDone(chatId, chat) ==
  /\ chatFetches[chatId] > 0
  /\ chatFetches' = [chatFetches EXCEPT ![chatId] = @ - 1]
  /\ chats' = InsertFetchedChat(chats, chat)
  /\ emitted' = JoinAll(chats', chats' # chats)
  /\ alerted' = FALSE
  /\ last' = Step("chat:fetch", chat, ChatExists(chats, CanonId(chat)), FALSE)
  /\ UNCHANGED <<conn, active, messages, input, unreadCounts, loading, connected, now,
                 loadChatsPending, loadChatsClosure, msgFetches, sends>>

\* GET /api/chats/:id rejects, lines 312-314
ChatFetchFail(chatId) ==
  /\ chatFetches[chatId] > 0
  /\ chatFetches' = [chatFetches EXCEPT ![chatId] = @ - 1]
  /\ emitted' = <<>>
  /\ alerted' = FALSE
  /\ last' = Step("chat:fetch:error", chatId, Undef, FALSE)
  /\ UNCHANGED <<conn, chats, active, messages, input, unreadCounts, loading, connected,
                 now, loadChatsPending, loadChatsClosure, msgFetches, sends>>

\* chat:created, lines 341-363
ChatCreated(chat) ==
  /\ chats' = ChatCreatedList(chats, chat)
  /\ emitted' = <<Emit("chat:join", RawId(chat), <<>>)>> \o JoinAll(chats', TRUE)
  /\ alerted' = FALSE
  /\ last' = Step("chat:created", chat, ChatExists(chats, CanonId(chat)), FALSE)
  /\ UNCHANGED <<conn, active, messages, input, unreadCounts, loading, connected, now,
                 loadChatsPending, loadChatsClosure, msgFetches, chatFetches, sends>>

\* message:status, lines 364-388
MessageStatus(messageId, userId, status) ==
  /\ messages' = StatusMessages(messages, messageId, userId, status)
  /\ chats' = StatusChats(chats, messageId, userId, status)
  /\ emitted' = JoinAll(chats', TRUE)
  /\ alerted' = FALSE
  /\ last' = Step("message:status", messageId, <<userId, status>>, FALSE)
  /\ UNCHANGED <<conn, active, input, unreadCounts, loading, connected, now,
                 loadChatsPending, loadChatsClosure, msgFetches, chatFetches, sends>>

\* typing, handleTypingEvent, lines 331-338
Typing(data) ==
  /\ chats' = TypingList(chats, data)
  /\ emitted' = JoinAll(chats', TRUE)
  /\ alerted' = FALSE
  /\ last' = Step("typing", data, Undef, FALSE)
  /\ UNCHANGED <<conn, active, messages, input, unreadCounts, loading, connected, now,
                 loadChatsPending, loadChatsClosure, msgFetches, chatFetches, sends>>

\* user:presence, lines 390-406
UserPresence(data) ==
  /\ chats' = PresenceList(chats, data)
  /\ emitted' = JoinAll(chats', TRUE)
  /\ alerted' = FALSE
  /\ last' = Step("user:presence", data, Undef, FALSE)
  /\ UNCHANGED <<conn, active, messages, input, unreadCounts, loading, connected, now,
                 loadChatsPending, loadChatsClosure, msgFetches, chatFetches, sends>>

(***************************************************************************)
(* The channel and the clock.                                              *)
(***************************************************************************)
\* the transport connects or reconnects, lines 171-174 and 191-194
Connect ==
  /\ ~connected
  /\ connected' = TRUE
  /\ emitted' = <<>>
  /\ alerted' = FALSE
  /\ last' = Step("connect", Undef, Undef, FALSE)
  /\ UNCHANGED <<conn, chats, active, messages, input, unreadCounts, loading, now,
                 loadChatsPending, loadChatsClosure, msgFetches, chatFetches, sends>>

\* the transport loses the connection, lines 176-179
Disconnect ==
  /\ connected
  /\ connected' = FALSE
  /\ emitted' = <<>>
  /\ alerted' = FALSE
  /\ last' = Step("disconnect", Undef, Undef, FALSE)
  /\ UNCHANGED <<conn, chats, active, messages, input, unreadCounts, loading, now,
                 loadChatsPending, loadChatsClosure, msgFetches, chatFetches, sends>>

\* a millisecond passes
Tick ==
  /\ now < MaxClock
  /\ now' = now + 1
  /\ emitted' = <<>>
  /\ alerted' = FALSE
  /\ last' = Step("tick", Undef, Undef, FALSE)
  /\ UNCHANGED <<conn, chats, active, messages, input, unreadCounts, loading, connected,
                 loadChatsPending, loadChatsClosure, msgFetches, chatFetches, sends>>

(***************************************************************************)
(* send(), lines 428-530.  A call in flight is a record: pc is "wait" in   *)
(* the polling loop and "ack" once message:send is emitted; chat and       *)
(* content are what the call's closure holds.                              *)
(***************************************************************************)
SendCall(pc, chatId, content, waited, tempId) ==
  [pc |-> pc, chat |-> chatId, content |-> content, waited |-> waited, tempId |-> tempId]

Waiting == {i \in 1..Len(sends) : sends[i].pc = "wait"}

\* sends without its i-th call
Without(calls, i) == SubSeq(calls, 1, i - 1) \o SubSeq(calls, i + 1, Len(calls))

\* onChange of the input, lines 974-981; the field is disabled while the
\* channel is down and exists only with an active chat
TypeInput(text) ==
  /\ active # NoChat
  /\ connected
  /\ text # input
  /\ input' = text
  /\ emitted' = <<Emit("typing", RawId(active), <<>>)>>
  /\ alerted' = FALSE
  /\ last' = Step("type", text, Undef, FALSE)
  /\ UNCHANGED <<conn, chats, active, messages, unreadCounts, loading, connected, now,
                 loadChatsPending, loadChatsClosure, msgFetches, chatFetches, sends>>

\* lines 471-521: the optimistic entry and the emit, for the call `call`
\* placed at position i of sends' (Len(sends) + 1 for a new call)
Optimistic(call, rest) ==
  LET tempId == TempV(now)
  IN /\ Len(messages) < MaxThread
     /\ messages' = Append(messages, OptimisticMsg(tempId, call.chat, call.content))
     /\ input' = <<>>
     /\ sends' = Append(rest, SendCall("ack", call.chat, call.content, call.waited, tempId))
     /\ emitted' = <<Emit("message:send", call.chat, <<>>)>>
     /\ alerted' = FALSE

\* send() is called and returns at once, lines 430-433
SendNothing ==
  /\ ~CanSend(active, input)
  /\ emitted' = <<>>
  /\ alerted' = FALSE
  /\ last' = Step("send:nothing", Undef, Undef, FALSE)
  /\ UNCHANGED <<conn, chats, active, messages, input, unreadCounts, loading, connected,
                 now, loadChatsPending, loadChatsClosure, msgFetches, chatFetches,
                 sends>>

\* send() is called with the channel up, lines 428-521
SendNow ==
  /\ CanSend(active, input)
  /\ connected
  /\ Len(sends) < MaxSends
  /\ Optimistic(SendCall("new", RawId(active), Trim(input), 0, Undef), sends)
  /\ last' = Step("send", TempV(now), Undef, FALSE)
  /\ UNCHANGED <<conn, chats, active, unreadCounts, loading, connected, now,
                 loadChatsPending, loadChatsClosure, msgFetches, chatFetches>>

\* send() is called with the channel down and starts to wait, lines 442-454
\* (socket.disconnected is !socket.connected, so line 446 is never reached)
SendWait ==
  /\ CanSend(active, input)
  /\ ~connected
  /\ Len(sends) < MaxSends
  /\ Cardinality(Waiting) < MaxWaiting
  /\ sends' = Append(sends, SendCall("wait", RawId(active), Trim(input), 0, Undef))
  /\ emitted' = <<>>
  /\ alerted' = FALSE
  /\ last' = Step("send:wait", Undef, Undef, FALSE)
  /\ UNCHANGED <<conn, chats, active, messages, input, unreadCounts, loading, connected,
                 now, loadChatsPending, loadChatsClosure, msgFetches, chatFetches>>

\* the timer of the polling loop fires and finds the channel up: the loop
\* breaks and the call goes on, lines 455-460 and 471-521
SendResume(i) ==
  /\ i \in Waiting
  /\ connected
  /\ Optimistic([sends[i] EXCEPT !.waited = @ + checkInterval], Without(sends, i))
  /\ last' = Step("send:resume", TempV(now), sends[i].waited + checkInterval, FALSE)
  /\ UNCHANGED <<conn, chats, active, unreadCounts, loading, connected, now,
                 loadChatsPending, loadChatsClosure, msgFetches, chatFetches>>

\* the timer fires, the channel is down and the loop goes round, line 453
SendPoll(i) ==
  /\ i \in Waiting
  /\ ~connected
  /\ KeepsWaiting(sends[i].waited + checkInterval)
  /\ sends' = [sends EXCEPT ![i].waited = @ + checkInterval]
  /\ emitted' = <<>>
  /\ alerted' = FALSE
  /\ last' = Step("send:poll", Undef, Undef, FALSE)
  /\ UNCHANGED <<conn, chats, active, messages, input, unreadCounts, loading, connected,
                 now, loadChatsPending, loadChatsClosure, msgFetches, chatFetches>>

\* the timer fires, the channel is down and the wait is over, lines 463-468
SendGiveUp(i) ==
  /\ i \in Waiting
  /\ ~connected
  /\ ~KeepsWaiting(sends[i].waited + checkInterval)
  /\ sends' = Without(sends, i)
  /\ emitted' = <<>>
  /\ alerted' = TRUE
  /\ last' = Step("send:giveup", sends[i].waited + checkInterval, Undef, FALSE)
  /\ UNCHANGED <<conn, chats, active, messages, input, unreadCounts, loading, connected,
                 now, loadChatsPending, loadChatsClosure, msgFetches, chatFetches>>

\* what the server can answer a message:send with
Acks(pool, chatId) ==
  [ok : BOOLEAN, error : BOOLEAN,
   message : {NoMsg} \cup {m \in pool : m.sender = Me /\ m.chat = chatId}]

\* the thread after the ack, lines 497-519
AckList(list, tempId, ack) ==
  IF AckIsSuccess(ack) THEN AckSuccessList(list, tempId, ack.message)
  ELSE IF AckIsFailure(ack) THEN AckFailureList(list, tempId)
  ELSE list

\* the ack callback of message:send runs, lines 495-520
Ack(i, ack) ==
  /\ i \in 1..Len(sends)
  /\ sends[i].pc = "ack"
  /\ sends' = Without(sends, i)
  /\ messages' = AckList(messages, sends[i].tempId, ack)
  /\ emitted' = <<>>
  /\ alerted' = AckIsFailure(ack)
  /\ last' = Step("ack", sends[i].tempId, ack,
                  Some(messages, LAMBDA m : m.id = sends[i].tempId))
  /\ UNCHANGED <<conn, chats, active, input, unreadCounts, loading, connected, now,
                 loadChatsPending, loadChatsClosure, msgFetches, chatFetches>>

(***************************************************************************)
(* The inputs the environment can give.                                    *)
(***************************************************************************)
\* the bodies GET /api/chats can have
ChatResponses ==
  {Response("array", xs) : xs \in SeqsUpTo(ChatPool, MaxChatResp)}
    \cup {Response("object", <<c>>) : c \in ChatPool}
    \cup {Response("empty", <<>>)}

\* the bodies GET /api/chats/:id/messages can have, the server holding the
\* messages of pool: no message twice
MsgResponses(pool, cid) ==
  LET held == {m \in pool : String(m.chat) = cid}
  IN {Response("array", xs) : xs \in
        {ys \in SeqsUpTo(held, MaxMsgResp) :
           \A i, j \in 1..Len(ys) : CanonId(ys[i]) = CanonId(ys[j]) => i = j}}
       \cup {Response("object", <<m>>) : m \in held}
       \cup {Response("empty", <<>>)}

\* the typing events the server can relay: chatId has the type the sender
\* gave it, typing is the text of the boolean
TypingEvents ==
  [chatId : ChatIds \cup {NumV(1)}, typing : {"true", "false"}]

\* the third user, a member of chats
Third == StrV(3)

\* the user:presence events the server can push
PresenceEvents ==
  [userId : Users \cup {Third}, isOnline : BOOLEAN, lastSeen : 0..MaxClock]

(***************************************************************************)
(* The whole program.                                                      *)
(***************************************************************************)
Next ==
  \/ \E data \in ChatResponses : LoadChatsDone(data)
  \/ LoadChatsFail
  \/ \E cid \in ChatKeys : \E data \in MsgResponses(MsgPool, cid) :
       LoadMessagesDone(cid, data)
  \/ \E cid \in ChatKeys : LoadMessagesFail(cid)
  \/ \E i \in 1..Len(chats) : SelectChat(i)
  \/ \E chat \in ChatPool : CreateOneToOne(chat)
  \/ \E chat \in ChatPool : CreateGroup(chat)
  \/ \E message \in MsgPool : NewMessage(message)
  \/ \E chatId \in ChatIds : \E chat \in ChatPool :
       CanonId(chat) = String(chatId) /\ ChatFetchDone(chatId, chat)
  \/ \E chatId \in ChatIds : ChatFetchFail(chatId)
  \/ \E chat \in ChatPool : ChatCreated(chat)
  \/ \E m \in MsgPool, u \in Users, st \in Statuses : MessageStatus(RawId(m), u, st)
  \/ Connect
  \/ Disconnect
  \/ Tick
  \/ \E text \in Inputs : TypeInput(text)
  \/ SendNothing
  \/ SendNow
  \/ SendWait
  \/ \E i \in 1..Len(sends) : SendResume(i)
  \/ \E i \in 1..Len(sends) : SendPoll(i)
  \/ \E i \in 1..Len(sends) : SendGiveUp(i)
  \/ \E i \in 1..Len(sends) : \E ack \in Acks(MsgPool, sends[i].chat) : Ack(i, ack)
  \/ \E data \in TypingEvents : Typing(data)
  \/ \E data \in PresenceEvents : UserPresence(data)

Spec == Init /\ [][Next]_vars

(***************************************************************************)
(* The chat list: every operation that writes it, with the messages of     *)
(* ChatsMsgs.                                                              *)
(***************************************************************************)
ChatsMsgs ==
  {Msg(StrV(1), Undef, StrV(2), Other, NoChat),
   Msg(StrV(3), Undef, StrV(2), Other, InfoFor(StrV(2)))}

NextChats ==
  \/ \E data \in ChatResponses : LoadChatsDone(data)
  \/ LoadChatsFail
  \/ \E cid \in ChatKeys : \E data \in MsgResponses(ChatsMsgs, cid) :
       LoadMessagesDone(cid, data)
  \/ \E i \in 1..Len(chats) : SelectChat(i)
  \/ \E chat \in ChatPool : CreateOneToOne(chat)
  \/ \E chat \in ChatPool : CreateGroup(chat)
  \/ \E message \in ChatsMsgs : NewMessage(message)
  \/ \E chatId \in ChatIds : \E chat \in ChatPool :
       CanonId(chat) = String(chatId) /\ ChatFetchDone(chatId, chat)
  \/ \E chatId \in ChatIds : ChatFetchFail(chatId)
  \/ \E chat \in ChatPool : ChatCreated(chat)
  \/ MessageStatus(StrV(1), Other, "seen")

SpecChats == Init /\ [][NextChats]_vars

(***************************************************************************)
(* The thread: every operation that adds or removes an entry, with the     *)
(* chats of ThreadChats and the messages of ThreadMsgs, the channel        *)
(* staying up.                                                             *)
(***************************************************************************)
ThreadChats == <<Chat(StrV(1), Undef), Chat(StrV(2), Undef)>>

ThreadMsgs ==
  {Msg(StrV(1), Undef, StrV(1), Me, NoChat),
   Msg(Undef, StrV(1), StrV(1), Other, NoChat)}

NextThread ==
  \/ LoadChatsDone(Response("array", ThreadChats))
  \/ \E cid \in ChatKeys : \E data \in MsgResponses(ThreadMsgs, cid) :
       LoadMessagesDone(cid, data)
  \/ \E i \in 1..Len(chats) : SelectChat(i)
  \/ \E message \in ThreadMsgs : NewMessage(message)
  \/ Connect
  \/ Tick
  \/ TypeInput(<<"a">>)
  \/ SendNow
  \/ \E i \in 1..Len(sends) : \E ack \in Acks(ThreadMsgs, sends[i].chat) : Ack(i, ack)

SpecThread == Init /\ [][NextThread]_vars

(***************************************************************************)
(* send(): every path of it, the channel going up and down.                *)
(***************************************************************************)
NextSend ==
  \/ LoadChatsDone(Response("array", ThreadChats))
  \/ Connect
  \/ Disconnect
  \/ \E text \in Inputs : TypeInput(text)
  \/ SendNothing
  \/ SendNow
  \/ SendWait
  \/ \E i \in 1..Len(sends) : SendResume(i)
  \/ \E i \in 1..Len(sends) : SendPoll(i)
  \/ \E i \in 1..Len(sends) : SendGiveUp(i)
  \/ \E i \in 1..Len(sends) : \E ack \in Acks(ThreadMsgs, sends[i].chat) : Ack(i, ack)

SpecSend == Init /\ [][NextSend]_vars

(***************************************************************************)
(* Activation: every operation that makes a chat active or writes what the *)
(* effects of activation read.                                             *)
(***************************************************************************)
ActivationMsgs ==
  {Msg(StrV(1), Undef, StrV(1), Other, NoChat),
   Msg(StrV(2), Undef, StrV(1), Me, NoChat),
   Msg(Undef, StrV(3), StrV(2), Other, NoChat)}

NextActivation ==
  \/ LoadChatsDone(Response("array", ThreadChats))
  \/ \E cid \in ChatKeys : \E data \in MsgResponses(ActivationMsgs, cid) :
       LoadMessagesDone(cid, data)
  \/ \E i \in 1..Len(chats) : SelectChat(i)
  \/ \E chat \in ChatPool : CreateOneToOne(chat)
  \/ \E chat \in ChatPool : CreateGroup(chat)
  \/ \E message \in ActivationMsgs : NewMessage(message)

SpecActivation == Init /\ [][NextActivation]_vars

(***************************************************************************)
(* Delivery status: message:status events for known and unknown messages.  *)
(***************************************************************************)
StatusMsgs ==
  {Msg(StrV(1), Undef, StrV(1), Other, NoChat),
   Msg(Undef, StrV(3), StrV(2), Me, NoChat)}

\* the messageId of a message:status event: known ones, the number 1, and 2,
\* which no message has
StatusIds == {StrV(1), StrV(3), NumV(1), StrV(2)}

NextStatus ==
  \/ LoadChatsDone(Response("array", ThreadChats))
  \/ \E cid \in ChatKeys : \E data \in MsgResponses(StatusMsgs, cid) :
       LoadMessagesDone(cid, data)
  \/ \E message \in StatusMsgs : NewMessage(message)
  \/ \E id \in StatusIds, u \in Users, st \in {"delivered", "seen"} :
       MessageStatus(id, u, st)

SpecStatus == Init /\ [][NextStatus]_vars

(***************************************************************************)
(* message:new: events for the active chat and for the others, from both   *)
(* senders, the channel going up and down.                                 *)
(***************************************************************************)
NextPush ==
  \/ LoadChatsDone(Response("array", ThreadChats))
  \/ \E cid \in ChatKeys : \E data \in MsgResponses(ActivationMsgs, cid) :
       LoadMessagesDone(cid, data)
  \/ \E i \in 1..Len(chats) : SelectChat(i)
  \/ \E message \in ActivationMsgs : NewMessage(message)
  \/ Connect
  \/ Disconnect

SpecPush == Init /\ [][NextPush]_vars

(***************************************************************************)
(* typing: chat 1 with its id as a number or as a string, chat 2 with its  *)
(* id in _id, and events that name them by number and by string.           *)
(***************************************************************************)
TypingPool == {Chat(NumV(1), Undef), Chat(StrV(1), Undef), Chat(Undef, StrV(2))}

TypingIds == {NumV(1), StrV(1), StrV(2)}

NextTyping ==
  \/ \E xs \in SeqsUpTo(TypingPool, MaxChatResp) : LoadChatsDone(Response("array", xs))
  \/ \E chat \in TypingPool : ChatCreated(chat)
  \/ \E data \in [chatId : TypingIds, typing : {"true", "false"}] : Typing(data)

SpecTyping == Init /\ [][NextTyping]_vars

(***************************************************************************)
(* user:presence: chat 1 with members that carry their id in id and in     *)
(* _id, chat 2 with a member that carries it in both or without members.   *)
(***************************************************************************)
PresencePool ==
  {ChatOf(StrV(1), Undef, <<Member(Other, Undef), Member(Undef, Third)>>),
   ChatOf(Undef, StrV(2), <<Member(Third, Third)>>),
   Chat(StrV(2), Undef)}

NextPresence ==
  \/ \E xs \in SeqsUpTo(PresencePool, MaxChatResp) : LoadChatsDone(Response("array", xs))
  \/ \E chat \in PresencePool : ChatCreated(chat)
  \/ \E data \in PresenceEvents : UserPresence(data)

SpecPresence == Init /\ [][NextPresence]_vars

(***************************************************************************)
(* Claims about the chat list.                                             *)
(***************************************************************************)
\* C2: in every reachable state the chat list holds at most one entry per
\* canonical chat id, whatever the interleaving of the list response, the
\* message:new paths, chat:created and the create completions.
C2_OneEntryPerChat ==
  \A i, j \in 1..Len(chats) : CanonId(chats[i]) = CanonId(chats[j]) => i = j

\* a fetch for a chat of an unknown message returned after another trigger
\* had inserted that chat, and the list holds it once
C2_Witness ==
  /\ last.op = "chat:fetch"
  /\ last.b = TRUE
  /\ CountId(chats, CanonId(last.a)) = 1

\* the positions of items that hold the first chat of their canonical id
FirstOccurrences(items) ==
  {i \in 1..Len(items) :
     \A j \in 1..(i - 1) : CanonId(items[j]) # CanonId(items[i])}

\* out is items cut down to those positions, in the order of items
IsFirstOccurrenceList(out, items) ==
  /\ Len(out) = Cardinality(FirstOccurrences(items))
  /\ \E f \in [1..Len(out) -> FirstOccurrences(items)] :
       /\ \A a, b \in 1..Len(out) : a < b => f[a] < f[b]
       /\ \A k \in 1..Len(out) : out[k] = items[f[k]]

\* C9: after the chat-list response is applied the chat list is the response
\* normalized: an array cut down to the first chat of each canonical id in
\* its order, a bare object as the one-element list, an empty body as the
\* empty list.
C9_ListNormalized ==
  last.op = "loadChats" =>
    CASE last.a.kind = "array" -> IsFirstOccurrenceList(chats, last.a.items)
      [] last.a.kind = "object" -> chats = <<last.a.items[1]>>
      [] OTHER -> chats = <<>>

\* an array with a repeated canonical id was applied
C9_Witness ==
  /\ last.op = "loadChats"
  /\ last.a.kind = "array"
  /\ Len(chats) >= 1
  /\ Len(last.a.items) > Len(chats)

\* C10: when the chat-list response is applied, a chat that is active at
\* that moment stays the active chat, and with none active the first entry
\* of the list becomes the active chat.
C10_ActiveKept ==
  last.op = "loadChats" =>
    IF last.b # NoChat THEN active = last.b
    ELSE IF Len(chats) > 0 THEN active = chats[1]
    ELSE active = NoChat

(***************************************************************************)
(* Claims about the thread.                                                *)
(***************************************************************************)
\* list holds an entry whose id field is id
HasId(list, id) == \E k \in 1..Len(list) : list[k].id = id

\* C1: after every message:new event addressed to the active chat, repeated
\* deliveries included, the thread holds exactly one entry with the
\* message's canonical id.
C1_OneEntryPerMessage ==
  (last.op = "message:new" /\ last.b = TRUE) =>
    CountId(messages, CanonId(last.a)) = 1

\* C3: the ack of a send reports success with a canonical message while the
\* send's optimistic entry is in the thread, the message:new of that message
\* having arrived before or arriving after: the thread then holds exactly
\* one entry with the canonical id and none with the send's temporary id.
C3_AckAndPush ==
  [][/\ (/\ last'.op = "ack"
         /\ AckIsSuccess(last'.b)
         /\ HasId(messages, last'.a))
          => /\ CountId(messages', CanonId(last'.b.message)) = 1
             /\ ~HasId(messages', last'.a)
     /\ (/\ last'.op = "message:new"
         /\ last'.b = TRUE
         /\ CountId(messages, CanonId(last'.a)) >= 1)
          => CountId(messages', CanonId(last'.a)) = 1]_vars

NoSendEmitted(evs) == \A k \in 1..Len(evs) : evs[k].ev # "message:send"

Blank(text) == \A k \in 1..Len(text) : text[k] = " "

\* C7: a send with empty or whitespace-only input, or with no active chat,
\* changes neither the thread nor the input nor the chat list and emits no
\* message:send.
C7_BlankSendIsNoOp ==
  [][(/\ last'.op \in {"send:nothing", "send", "send:wait"}
      /\ (active = NoChat \/ Blank(input)))
       => /\ messages' = messages
          /\ input' = input
          /\ chats' = chats
          /\ NoSendEmitted(emitted')]_vars

\* send was called with an active chat and white space typed
C7_Witness ==
  /\ last.op = "send:nothing"
  /\ active # NoChat
  /\ input # <<>>
  /\ Blank(input)

(***************************************************************************)
(* Claims about activation.                                                *)
(***************************************************************************)
\* the step made a chat active and ran the effects that depend on `active`
Activated(l) ==
  \/ l.op \in {"select", "createOneToOne", "createGroup"}
  \/ (l.op = "loadChats" /\ l.c = TRUE)

\* the message:seen calls among evs
SeenEvents(evs) == SelectSeq(evs, LAMBDA e : e.ev = "message:seen")

\* the positions of list whose sender is not the current user
FromOthers(list) == {i \in 1..Len(list) : list[i].sender # Me}

\* ids holds the id of every message of list that another user sent, in the
\* order of list, and nothing else
IsIdsOfOthers(ids, list) ==
  /\ Len(ids) = Cardinality(FromOthers(list))
  /\ \E f \in [1..Len(ids) -> FromOthers(list)] :
       /\ \A a, b \in 1..Len(ids) : a < b => f[a] < f[b]
       /\ \A k \in 1..Len(ids) :
            ids[k] = IF list[f[k]].id # Undef THEN list[f[k]].id ELSE list[f[k]]._id

\* activation zeroes the chat's unread counter and leaves the others
UnreadCleared ==
  /\ unreadCounts'[CanonId(active')] = 0
  /\ \A k \in ChatKeys \ {CanonId(active')} : unreadCounts'[k] = unreadCounts[k]

\* C5 as stated: activating a chat zeroes that chat's unread counter, leaves
\* the other counters, and emits one message:seen batch holding the ids of
\* the messages then in the thread that another user sent.
C5_AlwaysOneBatch ==
  [][Activated(last') =>
       /\ UnreadCleared
       /\ Len(SeenEvents(emitted')) = 1
       /\ IsIdsOfOthers(SeenEvents(emitted')[1].ids, messages)]_vars

\* C5 amended: activating a chat zeroes that chat's unread counter and
\* leaves the other counters; when the thread then holds a message another
\* user sent it emits exactly one message:seen batch holding the ids of
\* those messages, and when it holds none it emits no message:seen.
C5_BatchWhenAny ==
  [][Activated(last') =>
       /\ UnreadCleared
       /\ IF FromOthers(messages) # {}
            THEN /\ Len(SeenEvents(emitted')) = 1
                 /\ IsIdsOfOthers(SeenEvents(emitted')[1].ids, messages)
            ELSE Len(SeenEvents(emitted')) = 0]_vars

\* a chat with unread messages was picked while the thread held a message
\* of another user and one of the user's own
C5_Witness ==
  /\ last.op = "select"
  /\ last.b > 0
  /\ unreadCounts[CanonId(active)] = 0
  /\ Len(SeenEvents(emitted)) = 1
  /\ Len(SeenEvents(emitted)[1].ids) < Len(messages)

(***************************************************************************)
(* Claims about delivery status.                                           *)
(***************************************************************************)
\* messageId is the canonical id of no message of the thread and of no
\* chat's last message
UnknownMessage(messageId) ==
  /\ \A k \in 1..Len(messages) : CanonId(messages[k]) # String(messageId)
  /\ \A k \in 1..Len(chats) :
       chats[k].lastMessage # NoMsg =>
         CanonId(chats[k].lastMessage) # String(messageId)

\* C8: a message:status event whose messageId matches no message of the
\* thread and no chat's last message leaves the thread and the chat list as
\* they were.
C8_UnknownStatusIsNoOp ==
  [][(last'.op = "message:status" /\ UnknownMessage(last'.a))
       => (messages' = messages /\ chats' = chats)]_vars

\* a message:status for an unknown message arrived while the thread and a
\* chat's last message held other messages
C8_Witness ==
  /\ last.op = "message:status"
  /\ UnknownMessage(last.a)
  /\ messages # <<>>
  /\ \E k \in 1..Len(chats) : chats[k].lastMessage # NoMsg

(***************************************************************************)
(* Claims about the fetch of the thread.                                   *)
(***************************************************************************)
\* C11: once a chat is active and no fetch of messages is outstanding, the
\* thread is what was fetched for the active chat: the response applied last
\* is one for the active chat, in whatever order the responses came.
C11_ThreadOfActive ==
  (/\ last.op = "loadMessages"
   /\ active # NoChat
   /\ \A k \in ChatKeys : msgFetches[k] = 0)
    => (/\ last.a = CanonId(active)
        /\ messages = LoadMessagesList(last.b))

(***************************************************************************)
(* Claims about the chat list under push events.                           *)
(***************************************************************************)
\* C12: a message:new event for a chat of the list replaces that chat's
\* lastMessage with the message and changes nothing else: the chat's other
\* fields, the other chats, the order and the length of the list stay.
C12_OnlyLastMessageReplaced ==
  [][(last'.op = "message:new" /\ ChatExists(chats, String(last'.a.chat)))
       => /\ Len(chats') = Len(chats)
          /\ \A i \in 1..Len(chats) :
               chats'[i] = IF CanonId(chats[i]) = String(last'.a.chat)
                             THEN [chats[i] EXCEPT !.lastMessage = last'.a]
                             ELSE chats[i]
          /\ Cardinality({i \in 1..Len(chats) :
                            CanonId(chats[i]) = String(last'.a.chat)}) = 1]_vars

\* a message arrived for the second chat of a list of two and is its
\* lastMessage, the first chat having none
C12_Witness ==
  /\ last.op = "message:new"
  /\ Len(chats) = 2
  /\ CanonId(chats[2]) = String(last.a.chat)
  /\ chats[2].lastMessage = last.a
  /\ chats[1].lastMessage = NoMsg

\* C13: a message:new event for a chat that is not in the list puts a chat
\* with that id at the front at once when it embeds chat info, and otherwise
\* starts a fetch of the chat and leaves the list; when that fetch returns
\* and the chat is still absent the fetched chat is put at the front.
C13_UnknownChatInserted ==
  [][/\ (last'.op = "message:new" /\ ~ChatExists(chats, String(last'.a.chat)))
          => IF last'.a.chatInfo # NoChat
               THEN /\ Len(chats') = Len(chats) + 1
                    /\ CanonId(chats'[1]) = String(last'.a.chat)
                    /\ \A i \in 1..Len(chats) : chats'[i + 1] = chats[i]
                    /\ chatFetches' = chatFetches
               ELSE /\ chats' = chats
                    /\ chatFetches' =
                         [chatFetches EXCEPT ![last'.a.chat] = @ + 1]
     /\ (last'.op = "chat:fetch" /\ last'.b = FALSE)
          => /\ chats' = <<last'.a>> \o chats
             /\ \E chatId \in ChatIds :
                  /\ chatFetches' = [chatFetches EXCEPT ![chatId] = @ - 1]
                  /\ CanonId(chats'[1]) = String(chatId)]_vars

\* the fetch started for an unknown chat returned, the chat was still absent
\* and is now the first of a list of two
C13_Witness ==
  /\ last.op = "chat:fetch"
  /\ last.b = FALSE
  /\ Len(chats) = 2
  /\ chats[1] = last.a

\* C14: a chat:created event puts the chat at the front when its canonical
\* id is absent and replaces the entry in place when it is present; the
\* handler emits chat:join for the chat's id either way, and the same event
\* applied again leaves the list as it is.
C14_ChatCreatedUpsert ==
  [][last'.op = "chat:created" =>
       /\ IF ChatExists(chats, CanonId(last'.a))
            THEN /\ Len(chats') = Len(chats)
                 /\ \A i \in 1..Len(chats) :
                      chats'[i] = IF CanonId(chats[i]) = CanonId(last'.a)
                                    THEN last'.a ELSE chats[i]
            ELSE chats' = <<last'.a>> \o chats
       /\ Len(emitted') >= 1
       /\ emitted'[1] = Emit("chat:join", RawId(last'.a), <<>>)
       /\ ChatCreatedList(chats', last'.a) = chats']_vars

\* a chat:created event found its chat as the second of a list of two and
\* replaced it there
C14_Witness ==
  /\ last.op = "chat:created"
  /\ last.b = TRUE
  /\ Len(chats) = 2
  /\ chats[2] = last.a
  /\ CanonId(chats[1]) # CanonId(last.a)
  /\ emitted[1] = Emit("chat:join", RawId(last.a), <<>>)

(***************************************************************************)
(* Claims about message:new.                                               *)
(***************************************************************************)
\* the chat of message is not the active chat, or no chat is active
ForOtherChat(message) ==
  active = NoChat \/ String(message.chat) # CanonId(active)

\* C15: a message:new event for a chat that is not the active chat, or one
\* that arrives with no chat active, leaves the thread as it is; the event
\* changes the thread only by appending a message of the active chat.
C15_ThreadOnlyForActive ==
  [][last'.op = "message:new" =>
       /\ ForOtherChat(last'.a) => messages' = messages
       /\ messages' # messages =>
            (~ForOtherChat(last'.a) /\ messages' = Append(messages, last'.a))]_vars

\* a message for another chat arrived while a chat was active and its
\* thread held a message
C15_Witness ==
  /\ last.op = "message:new"
  /\ last.b = FALSE
  /\ ForOtherChat(last.a)
  /\ active # NoChat
  /\ messages # <<>>

\* the message:delivered and message:seen calls among evs
AckEvents(evs) ==
  SelectSeq(evs, LAMBDA e : e.ev \in {"message:delivered", "message:seen"})

\* message:delivered and then message:seen for the id of message
BothAcks(message) ==
  <<Emit("message:delivered", RawId(message), <<>>),
    Emit("message:seen", Undef, <<RawId(message)>>)>>

C17_UnreadCount ==
  [][last'.op = "message:new" =>
       unreadCounts' =
         IF ForOtherChat(last'.a) /\ last'.a.sender # Me
           THEN [unreadCounts EXCEPT ![String(last'.a.chat)] = @ + 1]
           ELSE unreadCounts]_vars

\* a message of another user arrived for a chat that is not the active one
\* and that chat's counter, and no other, stands at one
C17_Witness ==
  /\ last.op = "message:new"
  /\ active # NoChat
  /\ ForOtherChat(last.a)
  /\ last.a.sender # Me
  /\ unreadCounts[String(last.a.chat)] = 1
  /\ unreadCounts[CanonId(active)] = 0

\* m with status[userId] set to status and nothing else changed
WithStatus(m, userId, status) ==
  [m EXCEPT !.status = [m.status EXCEPT ![userId] = status]]

\* C18: a message:status event {messageId, userId, status} sets
\* status[userId] to status on every thread message whose canonical id is
\* messageId, whoever sent it, and on the lastMessage of every chat whose
\* last message has that canonical id; every other message, chat and key of
\* a status map stays as it was.
C18_StatusPatched ==
  [][last'.op = "message:status" =>
       /\ Len(messages') = Len(messages)
       /\ \A k \in 1..Len(messages) :
            messages'[k] =
              IF CanonId(messages[k]) = String(last'.a)
                THEN WithStatus(messages[k], last'.b[1], last'.b[2])
                ELSE messages[k]
       /\ Len(chats') = Len(chats)
       /\ \A k \in 1..Len(chats) :
            chats'[k] =
              IF /\ chats[k].lastMessage # NoMsg
                 /\ CanonId(chats[k].lastMessage) = String(last'.a)
                THEN [chats[k] EXCEPT !.lastMessage =
                        WithStatus(chats[k].lastMessage, last'.b[1], last'.b[2])]
                ELSE chats[k]]_vars

\* a message:status event named a thread message that another user sent,
\* also the last message of a chat, and both carry the status
C18_Witness ==
  /\ last.op = "message:status"
  /\ \E k \in 1..Len(messages) :
       /\ messages[k].sender = Other
       /\ CanonId(messages[k]) = String(last.a)
       /\ messages[k].status[last.b[1]] = last.b[2]
  /\ \E k \in 1..Len(chats) :
       /\ chats[k].lastMessage # NoMsg
       /\ CanonId(chats[k].lastMessage) = String(last.a)
       /\ chats[k].lastMessage.status[last.b[1]] = last.b[2]
  /\ \E k \in 1..Len(chats) :
       /\ chats[k].lastMessage # NoMsg
       /\ CanonId(chats[k].lastMessage) # String(last.a)

(***************************************************************************)
(* Claims about typing and presence.                                       *)
(***************************************************************************)
\* m carries userId in its id field or in its _id field
IsMember(m, userId) == m.id = userId \/ m._id = userId

C20_TypingByCanonicalId ==
  [][last'.op = "typing" =>
       /\ Len(chats') = Len(chats)
       /\ \A k \in 1..Len(chats) :
            chats'[k] =
              IF CanonId(chats[k]) = last'.a.chatId
                THEN [chats[k] EXCEPT !.typing = last'.a.typing]
                ELSE chats[k]]_vars

(***************************************************************************)
(* Claims about concurrent sends and fetches.                              *)
(***************************************************************************)
\* C30: any two optimistic entries that are in the thread at the same time
\* have distinct temporary ids, two sends within one clock tick included.
C30_DistinctTempIds ==
  \A i, j \in 1..Len(messages) :
    (/\ messages[i].optimistic
     /\ messages[j].optimistic
     /\ messages[i].id = messages[j].id) => i = j

\* C28: a message that a message:new event appended to the thread of the
\* active chat is still in the thread after the response of a fetch for
\* that chat, in flight when the event arrived, is applied next.
C28_PushedMessageKept ==
  [][(/\ last.op = "message:new"
      /\ last.b = TRUE
      /\ last'.op = "loadMessages"
      /\ active # NoChat
      /\ last'.a = CanonId(active))
       => CountId(messages', CanonId(last.a)) >= 1]_vars

\* C27: a step in which the socket connects, a reconnect of the same socket
\* instance included, or in which the chat list changes, emits a chat:join
\* for every chat of the chat list.
JoinedAll(list, events) ==
  \A i \in 1..Len(list) :
    \E k \in 1..Len(events) :
      events[k].ev = "chat:join" /\ events[k].id = RawId(list[i])

C27_JoinAllOnConnectOrChange ==
  [][(last'.op = "connect" \/ chats' # chats) => JoinedAll(chats', emitted')]_vars

(***************************************************************************)
(* REST failures: each of the three calls can resolve or reject, with one  *)
(* chat loaded and messages for it and for a chat the list does not hold.  *)
(***************************************************************************)
RestMsgs ==
  {Msg(StrV(1), Undef, StrV(1), Other, NoChat),
   Msg(StrV(3), Undef, StrV(2), Other, NoChat)}

NextRest ==
  \/ \E chat \in ChatPool : LoadChatsDone(Response("array", <<chat>>))
  \/ LoadChatsFail
  \/ \E cid \in ChatKeys : \E data \in MsgResponses(RestMsgs, cid) :
       LoadMessagesDone(cid, data)
  \/ \E cid \in ChatKeys : LoadMessagesFail(cid)
  \/ \E i \in 1..Len(chats) : SelectChat(i)
  \/ \E message \in RestMsgs : NewMessage(message)
  \/ \E chatId \in ChatIds : \E chat \in ChatPool :
       CanonId(chat) = String(chatId) /\ ChatFetchDone(chatId, chat)
  \/ \E chatId \in ChatIds : ChatFetchFail(chatId)

SpecRest == Init /\ [][NextRest]_vars

\* C26: a step in which a REST call fails (the chat-list load, a message
\* load, the fetch of an unknown chat) leaves the chat list, the thread and
\* the active chat as they were, and a failed chat-list load leaves the
\* loading flag cleared.
RestFailures == {"loadChats:error", "loadMessages:error", "chat:fetch:error"}

C26_FailureKeepsCache ==
  [][last'.op \in RestFailures =>
       /\ chats' = chats
       /\ messages' = messages
       /\ active' = active
       /\ (last'.op = "loadChats:error" => loading' = FALSE)]_vars

\* a message load failed while a chat is active and the thread holds a message
C26_Witness ==
  /\ last.op = "loadMessages:error"
  /\ active # NoChat
  /\ last.a = CanonId(active)
  /\ Len(messages) >= 1
  /\ Len(chats) >= 1

(***************************************************************************)
(* The seen acknowledgement of fetched messages.  Every REST call that is  *)
(* in flight settles; the user and the server owe no further event.        *)
(***************************************************************************)
FetchSettles ==
  \/ LoadChatsDone(Response("array", ThreadChats))
  \/ \E cid \in ChatKeys : \E data \in MsgResponses(ActivationMsgs, cid) :
       LoadMessagesDone(cid, data)

SpecPushFair == Init /\ [][NextPush]_vars /\ WF_vars(FetchSettles)

\* the response of the fetch for the active chat was just applied and the
\* thread holds a message of another user
FetchedFromOthers ==
  IF last.op = "loadMessages" /\ active # NoChat
    THEN last.a = CanonId(active) /\ FromOthers(messages) # {}
    ELSE FALSE

\* a message:seen is emitted that holds the id of every message of the
\* thread that another user sent
SeenCoversThread ==
  \E k \in 1..Len(emitted) :
    /\ emitted[k].ev = "message:seen"
    /\ \A i \in FromOthers(messages) :
         \/ emitted[k].id = RawId(messages[i])
         \/ \E j \in 1..Len(emitted[k].ids) : emitted[k].ids[j] = RawId(messages[i])

\* C29: after a chat is activated and its messages are fetched into the
\* thread, a message:seen is eventually emitted that covers every fetched
\* message whose sender is not the current user.
C29_FetchedEventuallySeen == FetchedFromOthers ~> SeenCoversThread

(***************************************************************************)
(* Entities without an id: chats and messages that carry neither `id` nor  *)
(* `_id`, next to ones that carry an id.                                   *)
(***************************************************************************)
KeyChats ==
  {Chat(StrV(1), Undef),
   Chat(Undef, Undef),
   ChatOf(Undef, Undef, <<Member(Other, Undef)>>)}

KeyMsgs ==
  {Msg(StrV(1), Undef, StrV(1), Other, NoChat),
   Msg(Undef, Undef, StrV(1), Other, NoChat),
   Msg(Undef, Undef, StrV(1), Me, NoChat)}

NextKeys ==
  \/ \E xs \in SeqsUpTo(KeyChats, MaxChatResp) : LoadChatsDone(Response("array", xs))
  \/ \E cid \in AllKeys : \E data \in MsgResponses(KeyMsgs, cid) :
       LoadMessagesDone(cid, data)
  \/ \E i \in 1..Len(chats) : SelectChat(i)
  \/ \E message \in KeyMsgs : NewMessage(message)
  \/ \E chat \in KeyChats : ChatFetchDone(StrV(1), chat)
  \/ ChatFetchFail(StrV(1))

SpecKeys == Init /\ [][NextKeys]_vars

\* the entity has neither id field
IdLess(e) == e.id = Undef /\ e._id = Undef

\* how many entries of list have neither id field
CountIdLess(list) == Cardinality({i \in 1..Len(list) : IdLess(list[i])})

\* C21: an entity with neither id field is never treated as equal to
\* another entity: the deduplication of a chat-list response keeps every
\* chat that has no id, and a message:new for the active chat whose message
\* has no id is always appended to the thread.
C21_IdLessNeverEqual ==
  [][/\ (last'.op = "loadChats" /\ last'.a.kind = "array")
          => CountIdLess(chats') = CountIdLess(last'.a.items)
     /\ (last'.op = "message:new" /\ last'.b = TRUE /\ IdLess(last'.a))
          => messages' = Append(messages, last'.a)]_vars

(***************************************************************************)
(* The connection: renders of Inner, its unmount, and the transport going  *)
(* up and down.                                                            *)
(***************************************************************************)
\* ChatApp is rendered: Inner is mounted and isAuthed, lines 1182-1183
ChatShown == mounted /\ isAuthed

\* useState initial values of a ChatApp that mounts, lines 6-26, and its
\* effect on [token], line 90: loadChats starts when there is a token
MountChatApp(t) ==
  /\ chats' = <<>>
  /\ active' = NoChat
  /\ messages' = <<>>
  /\ input' = <<>>
  /\ unreadCounts' = [k \in AllKeys |-> 0]
  /\ loading' = TRUE
  /\ loadChatsPending' = (t # NoToken)
  /\ loadChatsClosure' = NoChat
  /\ msgFetches' = [k \in AllKeys |-> 0]
  /\ chatFetches' = [c \in ChatIds |-> 0]
  /\ sends' = <<>>
  /\ emitted' = <<>>

\* the effects of a ChatApp that stays mounted while the token changes to t
\* and the socket it is given becomes prop: loadChats (lines 58-91, on
\* [token]), loadMessages (lines 93-119, on [active, token]) and the join of
\* every chat (lines 122-128, on [socket, chats])
TokenEffects(t, prop) ==
  /\ loadChatsPending' = IF t # NoToken THEN TRUE ELSE loadChatsPending
  /\ loadChatsClosure' = IF t # NoToken THEN active ELSE loadChatsClosure
  /\ IF active = NoChat
       THEN messages' = <<>> /\ UNCHANGED msgFetches
       ELSE /\ msgFetches[CanonId(active)] < MaxFetch
            /\ msgFetches' = [msgFetches EXCEPT ![CanonId(active)] = @ + 1]
            /\ UNCHANGED messages
  /\ emitted' = (IF active # NoChat /\ prop # NoSocket THEN JoinActive(active) ELSE <<>>)
                  \o JoinAll(chats, prop # chatSocket /\ prop # NoSocket)
  /\ UNCHANGED <<chats, active, input, unreadCounts, loading, chatFetches, sends>>

\* useAuth() gives the token t and isAuthed a, and Inner renders (for the
\* first time when it is not mounted): the useMemo of lines 1087-1158, then
\* ChatApp mounting, staying or unmounting with its effects
Render(t, a) ==
  LET m == IF t # token \/ ~mounted THEN UseMemo(t, socketRef, sockets)
           ELSE [ref |-> socketRef, sockets |-> sockets]
      prop == IF a THEN m.ref ELSE NoSocket
  IN /\ mounted => (t # token \/ a # isAuthed)
     /\ Len(m.sockets) <= MaxSockets
     /\ token' = t
     /\ isAuthed' = a
     /\ mounted' = TRUE
     /\ socketRef' = m.ref
     /\ sockets' = IF prop # chatSocket THEN SocketEffect(m.sockets, chatSocket, prop)
                   ELSE m.sockets
     /\ chatSocket' = prop
     /\ connected' = IF m.ref = socketRef /\ m.ref # NoSocket THEN connected ELSE FALSE
     /\ IF a /\ ~ChatShown THEN MountChatApp(t)
        ELSE IF a /\ t # token THEN TokenEffects(t, prop)
        ELSE /\ emitted' = <<>>
             /\ UNCHANGED <<chats, active, messages, input, unreadCounts, loading,
                            loadChatsPending, loadChatsClosure, msgFetches,
                            chatFetches, sends>>
     /\ alerted' = FALSE
     /\ last' = Step("render", t, a, mounted)
     /\ UNCHANGED now

\* Inner unmounts: ChatApp's cleanup (lines 408-424) and the cleanup of
\* lines 1160-1169
InnerUnmount ==
  /\ mounted
  /\ mounted' = FALSE
  /\ sockets' = Closed(SocketEffect(sockets, chatSocket, NoSocket), socketRef)
  /\ socketRef' = NoSocket
  /\ chatSocket' = NoSocket
  /\ connected' = FALSE
  /\ emitted' = <<>>
  /\ alerted' = FALSE
  /\ last' = Step("unmount", token, isAuthed, TRUE)
  /\ UNCHANGED <<token, isAuthed, chats, active, messages, input, unreadCounts,
                 loading, now, loadChatsPending, loadChatsClosure, msgFetches,
                 chatFetches, sends>>

\* the socket of Inner reports a disconnect the client did not ask for:
\* the listener of lines 1132-1139
OnDisconnect(reason) ==
  /\ mounted
  /\ socketRef # NoSocket
  /\ connected
  /\ ReconnectsByHand(reason) => sockets[socketRef].connectCalls < MaxConnectCalls
  /\ connected' = FALSE
  /\ sockets' = IF ReconnectsByHand(reason)
                  THEN [sockets EXCEPT ![socketRef].connectCalls = @ + 1]
                  ELSE sockets
  /\ emitted' = <<>>
  /\ alerted' = FALSE
  /\ last' = Step("onDisconnect", reason, Undef, FALSE)
  /\ UNCHANGED <<token, isAuthed, mounted, socketRef, chatSocket, chats, active,
                 messages, input, unreadCounts, loading, now, loadChatsPending,
                 loadChatsClosure, msgFetches, chatFetches, sends>>

\* the transport of the socket Inner holds connects
ChannelUp == mounted /\ socketRef # NoSocket /\ Connect

NextSocket ==
  \/ \E t \in Tokens \cup {NoToken}, a \in BOOLEAN : Render(t, a)
  \/ InnerUnmount
  \/ \E reason \in Reasons : OnDisconnect(reason)
  \/ ChannelUp
  \/ ChatShown /\ LoadChatsDone(Response("array", ThreadChats))
  \/ \E i \in 1..Len(chats) : ChatShown /\ SelectChat(i)

SpecSocket == Init /\ [][NextSocket]_vars

(***************************************************************************)
(* Claims about the connection.                                            *)
(***************************************************************************)
\* the sockets on which the client has not called disconnect()
OpenSockets == {i \in 1..Len(sockets) : sockets[i].open}

\* C22: on a disconnect notification whose reason is a server-initiated
\* disconnect the client calls connect() on the socket once; on a disconnect
\* with any other reason it calls connect() on no socket, and no other step
\* calls connect().
C22_ConnectOnServerDisconnect ==
  [][\A i \in 1..Len(sockets) :
       sockets'[i].connectCalls =
         sockets[i].connectCalls +
           (IF /\ last'.op = "onDisconnect"
               /\ last'.a = "io server disconnect"
               /\ i = socketRef
              THEN 1 ELSE 0)]_vars

\* a disconnect with another reason, after a server-initiated one
C22_Witness ==
  /\ last.op = "onDisconnect"
  /\ last.a = "ping timeout"
  /\ sockets[socketRef].connectCalls = 1

\* C23: every event has at most one ChatApp handler on the socket ChatApp
\* is given, and none on any other socket, whatever renders, unmounts and
\* reconnects happened.
C23_OneHandlerPerEvent ==
  \A i \in 1..Len(sockets) : \A e \in Events :
    /\ sockets[i].handlers[e] <= 1
    /\ i # chatSocket => sockets[i].handlers[e] = 0

\* ChatApp listens on a second socket, which has reconnected by hand, after
\* the first one was replaced
C23_Witness ==
  /\ Len(sockets) >= 2
  /\ chatSocket = 2
  /\ sockets[2].connectCalls >= 1
  /\ \A e \in Events : sockets[2].handlers[e] = 1

\* C24: at most one socket is open, and it is the one socketRef holds; while
\* there is no token, and after Inner unmounted, no socket is open and
\* socketRef is cleared.
C24_OneHandle ==
  /\ Cardinality(OpenSockets) <= 1
  /\ \A i \in OpenSockets : i = socketRef
  /\ (token = NoToken \/ ~mounted) => (OpenSockets = {} /\ socketRef = NoSocket)

\* Inner unmounted after a logout and a second login
C24_Witness ==
  /\ last.op = "unmount"
  /\ Len(sockets) >= 2
  /\ token # NoToken

\* C25: whenever ChatApp is rendered with a token, the socket it is given
\* was created with that token, also after the token changed from one valid
\* token to another.
C25_SocketOfToken ==
  (ChatShown /\ token # NoToken) =>
    (chatSocket # NoSocket /\ sockets[chatSocket].token = token)

(***************************************************************************)
(* Claims about repeated and reordered push events.                        *)
(***************************************************************************)
\* the recipients for whom message m is recorded as seen
SeenBy(m) == {u \in Users : m.status[u] = "seen"}

\* C31: a message:status event never takes a recipient's status back from
\* seen: every thread message, and every chat's lastMessage, that records
\* seen for a recipient records seen for that recipient after the event.
C31_StatusNeverRegresses ==
  [][last'.op = "message:status" =>
       /\ \A k \in 1..Len(messages) :
            SeenBy(messages[k]) \subseteq SeenBy(messages'[k])
       /\ \A k \in 1..Len(chats) :
            chats[k].lastMessage # NoMsg =>
              SeenBy(chats[k].lastMessage) \subseteq SeenBy(chats'[k].lastMessage)]_vars

\* C32: the same message:new event applied a second time, right after the
\* first, for a chat that is not the active one leaves every unread counter
\* as the first application left it.
C32_DuplicateCountsOnce ==
  [][(/\ last.op = "message:new"
      /\ last'.op = "message:new"
      /\ last'.a = last.a
      /\ last'.b = FALSE)
       => unreadCounts' = unreadCounts]_vars

====
